---- MODULE Spec2Model ----
(***************************************************************************)
(* corsa - asynchronous channels in JavaScript.                            *)
(*                                                                         *)
(* The state machines of this module:                                      *)
(*   Spec        the split Sender/Receiver channel of src/src/channel.ts   *)
(*   SpecStream  the bounded Stream of src/src/corsa.ts (Readable/Writable)*)
(*   SpecIter    either of the two, consumed by `for await`                *)
(*   SpecQueues  the transfer queue of the Stream or of the Memory store   *)
(*               of src/src/channels/channel.ts                            *)
(*   SpecProducer  the Stream fed by one producer that awaits each write   *)
(*   SpecSelect  select() of corsa.ts or of channels/channel.ts            *)
(*   SpecConcat  Receiver.concat of channels/channel.ts                    *)
(*   SpecForward Receiver.take and Receiver.skip of channels/channel.ts    *)
(*   SpecQuery   the element operators (first, last, elementAt), Receiver  *)
(*                                                                         *)
(* JavaScript runs one job at a time.  A call runs synchronously up to its *)
(* first `await`; the code after the `await` runs as a later microtask.    *)
(* Each action below is one such synchronous piece.  Microtasks run in the *)
(* order they were queued, and any synchronous calls may sit between the   *)
(* queuing of a continuation and its execution.                            *)
(***************************************************************************)
EXTENDS Integers, Sequences, FiniteSets

VARIABLES
    \* ---- split channel (src/src/channel.ts) ----
    status,      \* Shared.status
    awaiters,    \* Shared.awaiters: indices into calls, oldest first
    buffer,      \* the queue's slots not yet claimed by a dequeue
    calls,       \* log of Sender.send/end calls, in call order
    recvs,       \* log of Receiver.receive calls, in call order
    overlapped,  \* history: some receive was issued while another was in flight
    rend,        \* history: the Receiver.end() calls so far (n) and, at the first one,
                 \* the receives that had returned a slot (k), the send/end calls
                 \* made (ncalls) and those still outstanding (pend)
    \* ---- Stream (src/src/corsa.ts) ----
    bounds,      \* Stream.bounds
    queue,       \* Stream.queue
    writers,     \* Stream.writers: indices into wcalls, suspended in writePause
    woken,       \* writers resolved by writeResume whose continuation has not run
    sinks,       \* Stream.sinks: indices into rcalls, suspended in readPause
    wcalls,      \* log of Stream.write/end calls, in call order
    rcalls,      \* log of Stream.read calls, in call order
    \* ---- consumers and variants ----
    mode,        \* which machine runs: "channel", "stream" or "memory"
    iter,        \* the async iteration: its position (st) and the call it awaits (at)
    yielded,     \* the values the iteration has yielded, in order
    immediates,  \* Memory.write callbacks queued by setImmediate: their values
    sel,         \* select / concat: the inputs (lens, pos) and the forwarders (st, at)
    query        \* a query operator of Receiver: its call (op, arg) and its locals

chanVars   == <<status, awaiters, buffer, calls, recvs, overlapped, rend>>
streamVars == <<bounds, queue, writers, woken, sinks, wcalls, rcalls>>
iterVars   == <<iter, yielded>>
vars       == <<status, awaiters, buffer, calls, recvs, overlapped, rend,
                bounds, queue, writers, woken, sinks, wcalls, rcalls,
                mode, iter, yielded, immediates, sel, query>>

\* ------------------------------------------------------------------ bounds
MaxVal   == 2      \* payloads are 1..MaxVal
MaxCalls == 3      \* Sender.send/end calls in a run
MaxRecvs == 4      \* Receiver.receive calls in a run
MaxEnds  == 2      \* Receiver.end calls in a run
MaxBounds == 2     \* Stream capacities are 0..MaxBounds
MaxWrites == 4     \* Stream.write/end calls in a run
MaxReads == 3      \* Stream.read calls in a run
MaxInputs == 2     \* readers passed to select
MaxIn == 3         \* values the input readers produce before their end markers

\* ------------------------------------------------------------------ values
Eof    == 0                    \* the Eof symbol: distinct from every payload
Values == 1 .. MaxVal
Slots  == Values \cup {Eof}
NoVal  == -1                   \* a receive that holds no slot yet
VoidPayload == 1               \* the payload `void 0` (or null): falsy, and not Eof

OPEN              == "OPEN"
ENDED_BY_SENDER   == "ENDED_BY_SENDER"
ENDED_BY_RECEIVER == "ENDED_BY_RECEIVER"

Range(s) == {s[i] : i \in DOMAIN s}

\* ------------------------------------------------------------------ channel()
ChanInit ==
    /\ status = OPEN
    /\ awaiters = <<>>
    /\ buffer = <<>>
    /\ calls = <<>>
    /\ recvs = <<>>
    /\ overlapped = FALSE
    /\ rend = [n |-> 0, k |-> 0, ncalls |-> 0, pend |-> {}]

\* Sender.assert: the error a send/end throws for the status, "" when none
AssertError(s) ==
    CASE s = ENDED_BY_RECEIVER -> "ReceiverEndedError"
      [] s = ENDED_BY_SENDER   -> "SenderEndedError"
      [] OTHER                 -> ""

\* the receives suspended inside dequeue(), oldest first
Waiting == {i \in DOMAIN recvs : recvs[i].st = "waiting"}
\* the receives whose dequeue() has settled and whose continuation is queued
Claimed == {i \in DOMAIN recvs : recvs[i].st = "claimed"}
Min(S) == CHOOSE x \in S : \A y \in S : x <= y

\* enqueue(slot): hand the slot to the oldest suspended dequeue, else buffer it
Enqueue(slot) ==
    IF Waiting # {}
    THEN /\ recvs' = [recvs EXCEPT ![Min(Waiting)] = [st |-> "claimed", val |-> slot, took |-> TRUE]]
         /\ buffer' = buffer
    ELSE /\ buffer' = Append(buffer, slot)
         /\ recvs' = recvs

\* dequeue(): claim the oldest buffered slot, else suspend
Dequeue ==
    IF buffer # <<>>
    THEN /\ recvs' = Append(recvs, [st |-> "claimed", val |-> Head(buffer), took |-> TRUE])
         /\ buffer' = Tail(buffer)
    ELSE /\ recvs' = Append(recvs, [st |-> "waiting", val |-> NoVal, took |-> FALSE])
         /\ buffer' = buffer

\* mutant: the awaiters are rejected in place and stay in the list
RejectAllKeep(err) ==
    /\ calls' = [i \in DOMAIN calls |->
                    IF i \in Range(awaiters) THEN [calls[i] EXCEPT !.outcome = err] ELSE calls[i]]
    /\ awaiters' = awaiters

\* reject every awaiter in the list with the error, leaving the list empty
RejectAll(err) ==
    /\ calls' = [i \in DOMAIN calls |->
                    IF i \in Range(awaiters) THEN [calls[i] EXCEPT !.outcome = err] ELSE calls[i]]
    /\ awaiters' = <<>>

\* mutant: the awaiter is pushed and the slot enqueued before the status check
SendSlotLateAssert(slot) ==
    /\ Len(calls) < MaxCalls
    /\ calls' = Append(calls, [slot |-> slot, queued |-> TRUE,
                               outcome |-> IF AssertError(status) # ""
                                           THEN AssertError(status) ELSE "pending"])
    /\ awaiters' = Append(awaiters, Len(calls) + 1)
    /\ Enqueue(slot)
    /\ UNCHANGED <<status, overlapped, rend>>

\* Sender.send(value) and Sender.end() (slot = Eof) up to `await promise`
SendSlot(slot) ==
    /\ Len(calls) < MaxCalls
    /\ IF AssertError(status) # ""
       THEN /\ calls' = Append(calls, [slot |-> slot, queued |-> FALSE,
                                       outcome |-> AssertError(status)])
            /\ UNCHANGED <<awaiters, buffer, recvs>>
       ELSE /\ calls' = Append(calls, [slot |-> slot, queued |-> TRUE, outcome |-> "pending"])
            /\ awaiters' = Append(awaiters, Len(calls) + 1)
            /\ Enqueue(slot)
    /\ UNCHANGED <<status, overlapped, rend>>

Send(v) == SendSlot(v)

\* mutant: end() enqueues Eof and returns without awaiting its acknowledgement
SenderEndNoAwait ==
    /\ Len(calls) < MaxCalls
    /\ IF AssertError(status) # ""
       THEN /\ calls' = Append(calls, [slot |-> Eof, queued |-> FALSE,
                                       outcome |-> AssertError(status)])
            /\ UNCHANGED <<awaiters, buffer, recvs>>
       ELSE /\ calls' = Append(calls, [slot |-> Eof, queued |-> TRUE, outcome |-> "resolved"])
            /\ awaiters' = awaiters
            /\ Enqueue(Eof)
    /\ UNCHANGED <<status, overlapped, rend>>

SenderEnd == SendSlot(Eof)

\* mutant: receive() dequeues whatever the status is
ReceiveCallNoSwitch ==
    /\ Len(recvs) < MaxRecvs
    /\ overlapped' = (overlapped \/ Waiting # {} \/ Claimed # {})
    /\ Dequeue
    /\ UNCHANGED <<status, awaiters, calls, rend>>

\* mutant: receive() does not wait on an empty queue, it returns Eof at once
ReceiveCallNoWait ==
    /\ Len(recvs) < MaxRecvs
    /\ overlapped' = (overlapped \/ Waiting # {} \/ Claimed # {})
    /\ CASE status = OPEN /\ buffer # <<>> ->
              /\ Dequeue
              /\ UNCHANGED <<status, awaiters, calls>>
         [] status = OPEN /\ buffer = <<>> ->
              /\ recvs' = Append(recvs, [st |-> "done", val |-> Eof, took |-> FALSE])
              /\ UNCHANGED <<status, awaiters, buffer, calls>>
         [] status = ENDED_BY_SENDER ->
              /\ RejectAll("SenderEndedError")
              /\ recvs' = Append(recvs, [st |-> "done", val |-> Eof, took |-> FALSE])
              /\ UNCHANGED <<status, buffer>>
         [] status = ENDED_BY_RECEIVER ->
              /\ recvs' = Append(recvs, [st |-> "done", val |-> Eof, took |-> FALSE])
              /\ UNCHANGED <<status, awaiters, buffer, calls>>
    /\ UNCHANGED rend

\* mutant: after ENDED_BY_SENDER receive() returns Eof without draining the awaiters
ReceiveCallNoDrain ==
    /\ Len(recvs) < MaxRecvs
    /\ overlapped' = (overlapped \/ Waiting # {} \/ Claimed # {})
    /\ IF status = OPEN
       THEN /\ Dequeue
            /\ UNCHANGED <<status, awaiters, calls>>
       ELSE /\ recvs' = Append(recvs, [st |-> "done", val |-> Eof, took |-> FALSE])
            /\ UNCHANGED <<status, awaiters, buffer, calls>>
    /\ UNCHANGED rend

\* Receiver.receive() up to its first await (OPEN) or to its return (ended)
ReceiveCall ==
    /\ Len(recvs) < MaxRecvs
    /\ overlapped' = (overlapped \/ Waiting # {} \/ Claimed # {})
    /\ CASE status = OPEN ->
              /\ Dequeue
              /\ UNCHANGED <<status, awaiters, calls>>
         [] status = ENDED_BY_SENDER ->
              /\ RejectAll("SenderEndedError")
              /\ recvs' = Append(recvs, [st |-> "done", val |-> Eof, took |-> FALSE])
              /\ UNCHANGED <<status, buffer>>
         [] status = ENDED_BY_RECEIVER ->
              /\ recvs' = Append(recvs, [st |-> "done", val |-> Eof, took |-> FALSE])
              /\ UNCHANGED <<status, awaiters, buffer, calls>>
    /\ UNCHANGED rend

\* mutant: the Eof slot is not recorded in the status
StatusAfterKeep(value) == status

\* mutant: the status read before the await is written back
StatusAfterStale(value) == IF value = Eof THEN ENDED_BY_SENDER ELSE OPEN

\* mutant: any falsy slot is taken for the end marker (`!value` for `value === Eof`)
StatusAfterFalsy(value) ==
    IF value = Eof \/ value = VoidPayload THEN ENDED_BY_SENDER ELSE status

\* the status a receive writes back after its dequeue settled with `value`
StatusAfter(value) == IF value = Eof THEN ENDED_BY_SENDER ELSE status

\* mutant: the newest awaiter is resolved (pop() for shift())
ReceiveCompleteNewest ==
    /\ Claimed # {}
    /\ LET i == Min(Claimed) IN
       /\ status' = StatusAfter(recvs[i].val)
       /\ IF awaiters = <<>>
          THEN /\ recvs' = [recvs EXCEPT ![i].st = "threw"]
               /\ UNCHANGED <<awaiters, calls>>
          ELSE /\ recvs' = [recvs EXCEPT ![i].st = "done"]
               /\ calls' = [calls EXCEPT ![awaiters[Len(awaiters)]].outcome = "resolved"]
               /\ awaiters' = SubSeq(awaiters, 1, Len(awaiters) - 1)
    /\ UNCHANGED <<buffer, overlapped, rend>>

\* Receiver.receive(), OPEN case, after `await this.dequeue()`.  Continuations
\* run in the order their dequeues settled, which is the order of the calls.
\* awaiters.shift() on an empty list gives undefined and the destructuring throws.
ReceiveComplete ==
    /\ Claimed # {}
    /\ LET i == Min(Claimed) IN
       /\ status' = StatusAfter(recvs[i].val)
       /\ IF awaiters = <<>>
          THEN /\ recvs' = [recvs EXCEPT ![i].st = "threw"]
               /\ UNCHANGED <<awaiters, calls>>
          ELSE /\ recvs' = [recvs EXCEPT ![i].st = "done"]
               /\ calls' = [calls EXCEPT ![Head(awaiters)].outcome = "resolved"]
               /\ awaiters' = Tail(awaiters)
    /\ UNCHANGED <<buffer, overlapped, rend>>

\* the receives that have returned a slot taken from the queue
Delivered == {i \in DOMAIN recvs : recvs[i].st = "done" /\ recvs[i].took}

\* mutant: only the oldest awaiter is rejected (`if` for `while`)
ReceiverEndOne ==
    /\ rend.n < MaxEnds
    /\ status' = ENDED_BY_RECEIVER
    /\ IF awaiters = <<>>
       THEN UNCHANGED <<awaiters, calls>>
       ELSE /\ calls' = [calls EXCEPT ![Head(awaiters)].outcome = "ReceiverEndedError"]
            /\ awaiters' = Tail(awaiters)
    /\ rend' = IF rend.n = 0
               THEN [n |-> 1, k |-> Cardinality(Delivered), ncalls |-> Len(calls),
                     pend |-> Range(awaiters)]
               ELSE [rend EXCEPT !.n = rend.n + 1]
    /\ UNCHANGED <<buffer, recvs, overlapped>>

\* Receiver.end()
ReceiverEnd ==
    /\ rend.n < MaxEnds
    /\ status' = ENDED_BY_RECEIVER
    /\ RejectAll("ReceiverEndedError")
    /\ rend' = IF rend.n = 0
               THEN [n |-> 1, k |-> Cardinality(Delivered), ncalls |-> Len(calls),
                     pend |-> Range(awaiters)]
               ELSE [rend EXCEPT !.n = rend.n + 1]
    /\ UNCHANGED <<buffer, recvs, overlapped>>

\* ------------------------------------------------------------------ Stream
Undefined == 0                 \* `void 0`: what end() writes and what a reader takes as eof

\* new Stream(bound), through channel(bound)
StreamInit(b) ==
    /\ bounds = b
    /\ queue = <<>>
    /\ writers = <<>>
    /\ woken = <<>>
    /\ sinks = <<>>
    /\ wcalls = <<>>
    /\ rcalls = <<>>

\* mutant: a full buffer is still admitted to (`>` for `>=`)
AtCapacityLate == Len(queue) > bounds

\* mutant: the caller pauses one slot early
AtCapacityEarly == Len(queue) + 1 >= bounds

\* the admission test of write() and end(): must the caller pause?
AtCapacity == Len(queue) >= bounds

\* mutant: the value is buffered without looking for a suspended reader
ReadResumePush(value) ==
    /\ queue' = Append(queue, value)
    /\ UNCHANGED <<sinks, rcalls>>

\* mutant: a value handed to a suspended reader is buffered as well
ReadResumeTwice(value) ==
    /\ queue' = Append(queue, value)
    /\ IF Len(sinks) > 0
       THEN /\ rcalls' = [rcalls EXCEPT ![Head(sinks)] = [st |-> "done", val |-> value]]
            /\ sinks' = Tail(sinks)
       ELSE UNCHANGED <<sinks, rcalls>>

\* readResume(value): hand the value to the oldest suspended reader, else buffer it
\* (reader_resume of the Memory store is the same code)
ReadResume(value) ==
    IF Len(sinks) > 0
    THEN /\ rcalls' = [rcalls EXCEPT ![Head(sinks)] = [st |-> "done", val |-> value]]
         /\ sinks' = Tail(sinks)
         /\ queue' = queue
    ELSE /\ queue' = Append(queue, value)
         /\ UNCHANGED <<sinks, rcalls>>

\* writePause(): the caller's resolver joins the writers list
WritePause(id) == writers' = Append(writers, id)

\* Stream.write(value) and Stream.end() (value = Undefined) up to their first await.
\* qlen, ahead and readsAt record what the call saw: the queue length, the
\* writers suspended before it and the reads issued before it.
WriteValue(value) ==
    /\ Len(wcalls) < MaxWrites
    /\ IF AtCapacity
       THEN /\ WritePause(Len(wcalls) + 1)
            /\ wcalls' = Append(wcalls, [val |-> value, st |-> "suspended", susp |-> TRUE,
                                         qlen |-> Len(queue), ahead |-> Len(writers),
                                         readsAt |-> Len(rcalls)])
            /\ UNCHANGED <<queue, sinks, rcalls>>
       ELSE /\ ReadResume(value)
            /\ wcalls' = Append(wcalls, [val |-> value, st |-> "done", susp |-> FALSE,
                                         qlen |-> Len(queue), ahead |-> 0,
                                         readsAt |-> Len(rcalls)])
            /\ UNCHANGED writers
    /\ UNCHANGED <<bounds, woken>>

Write(v) == WriteValue(v)

StreamEnd == WriteValue(Undefined)

\* write()/end() after `await this.writePause()`: the oldest woken writer runs
WriteContinue ==
    /\ woken # <<>>
    /\ ReadResume(wcalls[Head(woken)].val)
    /\ wcalls' = [wcalls EXCEPT ![Head(woken)].st = "done"]
    /\ woken' = Tail(woken)
    /\ UNCHANGED <<bounds, writers>>

\* mutant: every suspended writer is resolved (`while` for `if`)
WriteResumeAll ==
    /\ writers' = <<>>
    /\ woken' = woken \o writers
    /\ wcalls' = [i \in DOMAIN wcalls |->
                     IF i \in Range(writers) THEN [wcalls[i] EXCEPT !.st = "woken"] ELSE wcalls[i]]

\* writeResume(): resolve the oldest suspended writer, if any
WriteResume ==
    IF Len(writers) > 0
    THEN /\ writers' = Tail(writers)
         /\ woken' = Append(woken, Head(writers))
         /\ wcalls' = [wcalls EXCEPT ![Head(writers)].st = "woken"]
    ELSE UNCHANGED <<writers, woken, wcalls>>

\* mutant: once a read has returned the end marker the stream is ended: a read
\* that finds the buffer empty returns the marker again
ReadStickyEof ==
    /\ Len(rcalls) < MaxReads
    /\ WriteResume
    /\ IF Len(queue) > 0
       THEN /\ rcalls' = Append(rcalls, [st |-> "done", val |-> Head(queue)])
            /\ queue' = Tail(queue)
            /\ sinks' = sinks
       ELSE IF \E i \in DOMAIN rcalls : rcalls[i] = [st |-> "done", val |-> Undefined]
       THEN /\ rcalls' = Append(rcalls, [st |-> "done", val |-> Undefined])
            /\ UNCHANGED <<queue, sinks>>
       ELSE /\ rcalls' = Append(rcalls, [st |-> "suspended", val |-> NoVal])
            /\ sinks' = Append(sinks, Len(rcalls) + 1)
            /\ queue' = queue
    /\ UNCHANGED bounds

\* Stream.read()
Read ==
    /\ Len(rcalls) < MaxReads
    /\ WriteResume
    /\ IF Len(queue) > 0
       THEN /\ rcalls' = Append(rcalls, [st |-> "done", val |-> Head(queue)])
            /\ queue' = Tail(queue)
            /\ sinks' = sinks
       ELSE /\ rcalls' = Append(rcalls, [st |-> "suspended", val |-> NoVal])
            /\ sinks' = Append(sinks, Len(rcalls) + 1)
            /\ queue' = queue
    /\ UNCHANGED bounds

\* ------------------------------------------------------------------ Memory
\* The Memory store of src/src/channels/channel.ts keeps the same three lists
\* as the Stream (buffer = queue, readers = sinks, writers) and its read,
\* reader_resume, write_resume and write_pause are the Stream's code.  Its write
\* differs: the admission test runs in a setImmediate callback.

\* Memory.write(value): queue the callback
MemoryWrite(v) ==
    /\ Len(wcalls) + Len(immediates) < MaxWrites
    /\ immediates' = Append(immediates, v)
    /\ UNCHANGED streamVars

\* mutant: the callback may start while a woken writer has not resumed
MemoryWriteRunEarly ==
    /\ immediates # <<>>
    /\ WriteValue(Head(immediates))
    /\ immediates' = Tail(immediates)

\* the setImmediate callback of Memory.write up to its first await.  A
\* macrotask starts only when no microtask is left, so no woken writer is
\* waiting for its continuation.
MemoryWriteRun ==
    /\ immediates # <<>>
    /\ woken = <<>>
    /\ WriteValue(Head(immediates))
    /\ immediates' = Tail(immediates)

\* ------------------------------------------------------------------ select, concat
\* Input readers are the environment: input j produces the values
\* InVal(j, 1) .. InVal(j, lens[j]) in that order, then its end marker, each at
\* a time of its own.  pos[j] counts the values taken from it.
Null == 0                      \* the end marker of the channels variant

InVal(j, k) == MaxIn * (j - 1) + k
SrcOf(x) == ((x - 1) \div MaxIn) + 1
InputSeq(j) == [k \in 1 .. sel.lens[j] |-> InVal(j, k)]

RECURSIVE SumSeq(_)
SumSeq(q) == IF q = <<>> THEN 0 ELSE Head(q) + SumSeq(Tail(q))

\* no select or concat is running
SelIdle == [lens |-> <<>>, pos |-> <<>>, st |-> <<>>, at |-> <<>>, completed |-> 0]

\* the index the next write call will have in wcalls
NextWriteIndex == Len(wcalls) + Len(immediates) + 1

\* select(...readers), corsa.ts: the body of one forwarder after its
\* `for await` obtained the next element of reader j, or found it exhausted
SelectTake(j) ==
    /\ sel.st[j] = "reading"
    /\ IF sel.pos[j] < sel.lens[j]
       THEN /\ WriteValue(InVal(j, sel.pos[j] + 1))
            /\ sel' = [sel EXCEPT !.pos[j] = @ + 1, !.st[j] = "writing",
                                  !.at[j] = NextWriteIndex]
       ELSE IF sel.completed + 1 = Len(sel.lens)
       THEN /\ WriteValue(Undefined)
            /\ sel' = [sel EXCEPT !.completed = @ + 1, !.st[j] = "ending",
                                  !.at[j] = NextWriteIndex]
       ELSE /\ sel' = [sel EXCEPT !.completed = @ + 1, !.st[j] = "done"]
            /\ UNCHANGED streamVars
    /\ UNCHANGED immediates

\* select(...receivers), channels/channel.ts: the same forwarder; nothing
\* follows its loop
MemorySelectTake(j) ==
    /\ sel.st[j] = "reading"
    /\ IF sel.pos[j] < sel.lens[j]
       THEN /\ MemoryWrite(InVal(j, sel.pos[j] + 1))
            /\ sel' = [sel EXCEPT !.pos[j] = @ + 1, !.st[j] = "writing",
                                  !.at[j] = NextWriteIndex]
       ELSE /\ sel' = [sel EXCEPT !.st[j] = "done"]
            /\ UNCHANGED <<streamVars, immediates>>

\* mutant: the forwarder goes on without awaiting its write
SelectResumeEarly(j) ==
    /\ sel.st[j] \in {"writing", "ending"}
    /\ sel' = [sel EXCEPT !.st[j] = IF sel.st[j] = "writing" THEN "reading" ELSE "done"]
    /\ UNCHANGED <<streamVars, immediates>>

\* a forwarder after `await write(value)` / `await end()`: back to its loop
SelectResume(j) ==
    /\ sel.st[j] \in {"writing", "ending"}
    /\ sel.at[j] \in DOMAIN wcalls
    /\ wcalls[sel.at[j]].st = "done"
    /\ sel' = [sel EXCEPT !.st[j] = IF sel.st[j] = "writing" THEN "reading" ELSE "done"]
    /\ UNCHANGED <<streamVars, immediates>>

\* Receiver.concat: the setImmediate callback starts iterating `this`
ConcatStart ==
    /\ sel.st[1] = "idle"
    /\ sel' = [sel EXCEPT !.st[1] = "reading"]
    /\ UNCHANGED <<streamVars, immediates>>

\* mutant: the argument is enumerated before `this`
ConcatTakeSwapped ==
    /\ sel.st[1] = "reading"
    /\ LET src == 2 - sel.completed IN
       IF sel.pos[src] < sel.lens[src]
       THEN /\ MemoryWrite(InVal(src, sel.pos[src] + 1))
            /\ sel' = [sel EXCEPT !.pos[src] = @ + 1, !.st[1] = "writing",
                                  !.at[1] = NextWriteIndex]
       ELSE IF sel.completed = 0
       THEN /\ sel' = [sel EXCEPT !.completed = 1]
            /\ UNCHANGED <<streamVars, immediates>>
       ELSE /\ MemoryWrite(Null)
            /\ sel' = [sel EXCEPT !.completed = 2, !.st[1] = "done"]

\* Receiver.concat: the callback after a `for await` obtained the next element
\* of the current input (`this`, then `receiver`) or found it exhausted; after
\* the second input it sends null without awaiting
ConcatTake ==
    /\ sel.st[1] = "reading"
    /\ LET src == sel.completed + 1 IN
       IF sel.pos[src] < sel.lens[src]
       THEN /\ MemoryWrite(InVal(src, sel.pos[src] + 1))
            /\ sel' = [sel EXCEPT !.pos[src] = @ + 1, !.st[1] = "writing",
                                  !.at[1] = NextWriteIndex]
       ELSE IF src = 1
       THEN /\ sel' = [sel EXCEPT !.completed = 1]
            /\ UNCHANGED <<streamVars, immediates>>
       ELSE /\ MemoryWrite(Null)
            /\ sel' = [sel EXCEPT !.completed = 2, !.st[1] = "done"]

\* ------------------------------------------------------------------ query operators
\* The operators of Receiver (channels/channel.ts) run a `for await` loop over
\* their input and keep a counter (ctr) and, for last, the newest element (acc).
\* The input is the environment, as for select.  take and skip forward input 1
\* of sel to an output channel of capacity 1; the element operators consume
\* the sequence query.s, in which the element VoidPayload is `undefined`, and
\* settle the promise res.
Pending     == [kind |-> "pending", val |-> NoVal]
Rejected    == [kind |-> "rejected", val |-> NoVal]
Resolved(v) == [kind |-> "resolved", val |-> v]

\* no operator is running
QueryIdle == [op |-> "none", arg |-> 0, ctr |-> 0, s |-> <<>>, pos |-> 0,
              acc |-> VoidPayload, res |-> Pending]

\* mutant: one element too many is forwarded (`<=` for `<`)
TakeInclusive ==
    /\ query.op = "take" /\ sel.st[1] = "reading"
    /\ IF sel.pos[1] < sel.lens[1] /\ query.ctr <= query.arg
       THEN /\ MemoryWrite(InVal(1, sel.pos[1] + 1))
            /\ sel' = [sel EXCEPT !.pos[1] = @ + 1, !.st[1] = "writing",
                                  !.at[1] = NextWriteIndex]
            /\ query' = query
       ELSE /\ MemoryWrite(Null)
            /\ sel' = [sel EXCEPT !.pos[1] = IF @ < sel.lens[1] THEN @ + 1 ELSE @,
                                  !.st[1] = "done"]
            /\ query' = query

\* Receiver.take(count): the callback after its `for await` obtained the next
\* element or found the input exhausted.  It forwards the element while
\* index < count; on the first element beyond, or at the end of the input, it
\* leaves the loop and sends null without awaiting.
Take ==
    /\ query.op = "take" /\ sel.st[1] = "reading"
    /\ IF sel.pos[1] < sel.lens[1] /\ query.ctr < query.arg
       THEN /\ MemoryWrite(InVal(1, sel.pos[1] + 1))
            /\ sel' = [sel EXCEPT !.pos[1] = @ + 1, !.st[1] = "writing",
                                  !.at[1] = NextWriteIndex]
            /\ query' = query
       ELSE /\ MemoryWrite(Null)
            /\ sel' = [sel EXCEPT !.pos[1] = IF @ < sel.lens[1] THEN @ + 1 ELSE @,
                                  !.st[1] = "done"]
            /\ query' = query

\* Receiver.skip(count): the same callback for skip.  An element is forwarded
\* when index >= count, else only counted; after the loop null is sent without
\* awaiting.
Skip ==
    /\ query.op = "skip" /\ sel.st[1] = "reading"
    /\ IF sel.pos[1] < sel.lens[1]
       THEN IF query.ctr >= query.arg
            THEN /\ MemoryWrite(InVal(1, sel.pos[1] + 1))
                 /\ sel' = [sel EXCEPT !.pos[1] = @ + 1, !.st[1] = "writing",
                                       !.at[1] = NextWriteIndex]
                 /\ query' = query
            ELSE /\ sel' = [sel EXCEPT !.pos[1] = @ + 1]
                 /\ query' = [query EXCEPT !.ctr = @ + 1]
                 /\ UNCHANGED <<streamVars, immediates>>
       ELSE /\ MemoryWrite(Null)
            /\ sel' = [sel EXCEPT !.st[1] = "done"]
            /\ query' = query

\* take and skip after `await tx.send(value)`: index++ and back to the loop
ForwardResume ==
    /\ query.op \in {"take", "skip"}
    /\ SelectResume(1)
    /\ query' = [query EXCEPT !.ctr = @ + 1]

\* the body of elementAt and elementAtOrDefault for the next element, or their
\* last statement (the promise settles with `missing`) after the loop
ElementAtLoop(missing) ==
    /\ query.res = Pending
    /\ IF query.pos < Len(query.s)
       THEN IF query.ctr = query.arg
            THEN query' = [query EXCEPT !.pos = @ + 1,
                                        !.res = Resolved(query.s[query.pos + 1])]
            ELSE query' = [query EXCEPT !.pos = @ + 1, !.ctr = @ + 1]
       ELSE query' = [query EXCEPT !.res = missing]

\* Receiver.elementAt(index)
ElementAt == query.op = "elementAt" /\ ElementAtLoop(Rejected)

\* Receiver.elementAtOrDefault(index)
ElementAtOrDefault == query.op = "elementAtOrDefault" /\ ElementAtLoop(Resolved(VoidPayload))

\* the body of first and firstOrDefault: return the first element obtained
FirstLoop(missing) ==
    /\ query.res = Pending
    /\ IF query.pos < Len(query.s)
       THEN query' = [query EXCEPT !.pos = @ + 1, !.res = Resolved(query.s[query.pos + 1])]
       ELSE query' = [query EXCEPT !.res = missing]

\* Receiver.first()
First == query.op = "first" /\ FirstLoop(Rejected)

\* Receiver.firstOrDefault()
FirstOrDefault == query.op = "firstOrDefault" /\ FirstLoop(Resolved(VoidPayload))

\* Receiver.last(): acc starts undefined and takes every element; after the
\* loop it throws when acc === undefined
Last ==
    /\ query.op = "last" /\ query.res = Pending
    /\ IF query.pos < Len(query.s)
       THEN query' = [query EXCEPT !.pos = @ + 1, !.acc = query.s[query.pos + 1]]
       ELSE query' = [query EXCEPT !.res = IF query.acc = VoidPayload
                                          THEN Rejected ELSE Resolved(query.acc)]

\* Receiver.lastOrDefault(): the same loop, then `return acc`
LastOrDefault ==
    /\ query.op = "lastOrDefault" /\ query.res = Pending
    /\ IF query.pos < Len(query.s)
       THEN query' = [query EXCEPT !.pos = @ + 1, !.acc = query.s[query.pos + 1]]
       ELSE query' = [query EXCEPT !.res = Resolved(query.acc)]

\* ------------------------------------------------------------------ for await
\* no iteration has been started
IterInit ==
    /\ iter = [st |-> "idle", at |-> 0]
    /\ yielded = <<>>

\* Receiver[Symbol.asyncIterator]: the loop asks for the next element and the
\* generator runs to `await this.receive()`
ReceiverIterNext ==
    /\ iter.st \in {"idle", "yielded"}
    /\ ReceiveCall
    /\ iter' = [st |-> "awaiting", at |-> Len(recvs) + 1]
    /\ UNCHANGED yielded

\* the generator after `await this.receive()`: return on Eof, else yield
ReceiverIterResume ==
    /\ iter.st = "awaiting"
    /\ recvs[iter.at].st \in {"done", "threw"}
    /\ IF recvs[iter.at].st = "threw"
       THEN iter' = [iter EXCEPT !.st = "threw"] /\ UNCHANGED yielded
       ELSE IF recvs[iter.at].val = Eof
       THEN iter' = [iter EXCEPT !.st = "stopped"] /\ UNCHANGED yielded
       ELSE /\ iter' = [iter EXCEPT !.st = "yielded"]
            /\ yielded' = Append(yielded, recvs[iter.at].val)
    /\ UNCHANGED chanVars

\* ReadableAsyncIterator.next() up to `await this.readable.read()`
ReadableIterNext ==
    /\ iter.st \in {"idle", "yielded"}
    /\ Read
    /\ iter' = [st |-> "awaiting", at |-> Len(rcalls) + 1]
    /\ UNCHANGED yielded

\* ReadableAsyncIterator.next() after the await: done on undefined, else the value
ReadableIterResume ==
    /\ iter.st = "awaiting"
    /\ rcalls[iter.at].st = "done"
    /\ IF rcalls[iter.at].val = Undefined
       THEN iter' = [iter EXCEPT !.st = "stopped"] /\ UNCHANGED yielded
       ELSE /\ iter' = [iter EXCEPT !.st = "yielded"]
            /\ yielded' = Append(yielded, rcalls[iter.at].val)
    /\ UNCHANGED streamVars

\* mutant: leaving the loop ends the channel (a `finally { this.end() }`)
IterAbandonEnds ==
    /\ iter.st = "yielded"
    /\ iter' = [iter EXCEPT !.st = "abandoned"]
    /\ ReceiverEnd
    /\ UNCHANGED yielded

\* the consumer leaves the loop body (break, return, throw): the generator is
\* finished at its `yield`, where no receive is in flight and no cleanup exists
IterAbandon ==
    /\ iter.st = "yielded"
    /\ iter' = [iter EXCEPT !.st = "abandoned"]
    /\ UNCHANGED <<status, awaiters, buffer, calls, recvs, overlapped, rend, yielded>>

\* ------------------------------------------------------------------ Spec
Init ==
    /\ ChanInit /\ StreamInit(1) /\ IterInit
    /\ query = QueryIdle /\ mode = "channel" /\ immediates = <<>> /\ sel = SelIdle

Next ==
    \/ (\E v \in Values : Send(v)) /\ UNCHANGED <<streamVars, iterVars, mode, query, immediates, sel>>
    \/ SenderEnd /\ UNCHANGED <<streamVars, iterVars, mode, query, immediates, sel>>
    \/ ReceiveCall /\ UNCHANGED <<streamVars, iterVars, mode, query, immediates, sel>>
    \/ ReceiveComplete /\ UNCHANGED <<streamVars, iterVars, mode, query, immediates, sel>>
    \/ ReceiverEnd /\ UNCHANGED <<streamVars, iterVars, mode, query, immediates, sel>>

Spec == Init /\ [][Next]_vars

\* ------------------------------------------------------------------ SpecStream
InitStream ==
    /\ ChanInit /\ IterInit
    /\ \E b \in 0 .. MaxBounds : StreamInit(b)
    /\ query = QueryIdle /\ mode = "stream" /\ immediates = <<>> /\ sel = SelIdle

NextStream ==
    \/ (\E v \in Values : Write(v)) /\ UNCHANGED <<chanVars, iterVars, mode, query, immediates, sel>>
    \/ StreamEnd /\ UNCHANGED <<chanVars, iterVars, mode, query, immediates, sel>>
    \/ WriteContinue /\ UNCHANGED <<chanVars, iterVars, mode, query, immediates, sel>>
    \/ Read /\ UNCHANGED <<chanVars, iterVars, mode, query, immediates, sel>>

SpecStream == InitStream /\ [][NextStream]_vars

\* ------------------------------------------------------------------ SpecIter
\* A channel of either kind whose consumer is one `for await` loop.  Producers
\* call at any time.  Direct receive() calls are made only once the loop is
\* over; Receiver.end() may be called at any time.
InitIter ==
    /\ ChanInit /\ IterInit
    /\ \E b \in 0 .. MaxBounds : StreamInit(b)
    /\ query = QueryIdle /\ mode \in {"channel", "stream"}
    /\ mode = "channel" => bounds = 1
    /\ immediates = <<>> /\ sel = SelIdle

NextIter ==
    \/ /\ mode = "channel" /\ \E v \in Values : Send(v)
       /\ UNCHANGED <<streamVars, iterVars, mode, query, immediates, sel>>
    \/ /\ mode = "channel" /\ SenderEnd
       /\ UNCHANGED <<streamVars, iterVars, mode, query, immediates, sel>>
    \/ /\ mode = "channel" /\ ReceiverIterNext
       /\ UNCHANGED <<streamVars, mode, query, immediates, sel>>
    \/ /\ mode = "channel" /\ ReceiveComplete
       /\ UNCHANGED <<streamVars, iterVars, mode, query, immediates, sel>>
    \/ /\ mode = "channel" /\ ReceiverIterResume
       /\ UNCHANGED <<streamVars, mode, query, immediates, sel>>
    \/ /\ mode = "channel" /\ ReceiverEnd
       /\ UNCHANGED <<streamVars, iterVars, mode, query, immediates, sel>>
    \/ /\ mode = "channel" /\ iter.st \in {"stopped", "abandoned"} /\ ReceiveCall
       /\ UNCHANGED <<streamVars, iterVars, mode, query, immediates, sel>>
    \/ /\ IterAbandon
       /\ UNCHANGED <<streamVars, mode, query, immediates, sel>>
    \/ /\ mode = "stream" /\ \E v \in Values : Write(v)
       /\ UNCHANGED <<chanVars, iterVars, mode, query, immediates, sel>>
    \/ /\ mode = "stream" /\ StreamEnd
       /\ UNCHANGED <<chanVars, iterVars, mode, query, immediates, sel>>
    \/ /\ mode = "stream" /\ WriteContinue
       /\ UNCHANGED <<chanVars, iterVars, mode, query, immediates, sel>>
    \/ /\ mode = "stream" /\ ReadableIterNext
       /\ UNCHANGED <<chanVars, mode, query, immediates, sel>>
    \/ /\ mode = "stream" /\ ReadableIterResume
       /\ UNCHANGED <<chanVars, mode, query, immediates, sel>>

SpecIter == InitIter /\ [][NextIter]_vars

\* ------------------------------------------------------------------ SpecQueues
\* the transfer queue of the Stream or of the Memory store
InitQueues ==
    /\ ChanInit /\ IterInit
    /\ \E b \in 0 .. MaxBounds : StreamInit(b)
    /\ query = QueryIdle /\ mode \in {"stream", "memory"}
    /\ immediates = <<>> /\ sel = SelIdle

NextQueues ==
    \/ /\ mode = "stream" /\ \E v \in Values : Write(v)
       /\ UNCHANGED <<chanVars, iterVars, mode, query, immediates, sel>>
    \/ /\ mode = "stream" /\ StreamEnd
       /\ UNCHANGED <<chanVars, iterVars, mode, query, immediates, sel>>
    \/ /\ mode = "memory" /\ \E v \in Values : MemoryWrite(v)
       /\ UNCHANGED <<chanVars, iterVars, mode, query, sel>>
    \/ /\ mode = "memory" /\ MemoryWriteRun
       /\ UNCHANGED <<chanVars, iterVars, mode, query, sel>>
    \/ /\ WriteContinue
       /\ UNCHANGED <<chanVars, iterVars, mode, query, immediates, sel>>
    \/ /\ Read
       /\ UNCHANGED <<chanVars, iterVars, mode, query, immediates, sel>>

SpecQueues == InitQueues /\ [][NextQueues]_vars

\* ------------------------------------------------------------------ SpecProducer
\* One producer runs `await writable.write(1); await writable.write(2); ...`:
\* it calls write(i+1) only after the promise of write(i) has resolved.  Reads
\* are made at any time.
ProducerWrite ==
    /\ \A i \in DOMAIN wcalls : wcalls[i].st = "done"
    /\ WriteValue(Len(wcalls) + 1)

NextProducer ==
    \/ ProducerWrite /\ UNCHANGED <<chanVars, iterVars, mode, query, immediates, sel>>
    \/ WriteContinue /\ UNCHANGED <<chanVars, iterVars, mode, query, immediates, sel>>
    \/ Read /\ UNCHANGED <<chanVars, iterVars, mode, query, immediates, sel>>

SpecProducer == InitStream /\ [][NextProducer]_vars

\* ------------------------------------------------------------------ SpecSelect
\* The state after select(r1 .. rN) returned: the output channel of capacity 1
\* exists and every forwarder waits for the first element of its reader.  The
\* output is read at any time.  The readers are interchangeable, so they are
\* listed by increasing length; together they produce at most MaxIn values.
InitSelect ==
    /\ ChanInit /\ IterInit /\ StreamInit(1)
    /\ query = QueryIdle /\ mode \in {"stream", "memory"}
    /\ immediates = <<>>
    /\ \E n \in 1 .. MaxInputs : \E lens \in [1 .. n -> 0 .. MaxIn] :
          /\ SumSeq(lens) <= MaxIn
          /\ \A j \in 1 .. n - 1 : lens[j] <= lens[j + 1]
          /\ sel = [lens |-> lens, pos |-> [j \in 1 .. n |-> 0],
                 st |-> [j \in 1 .. n |-> "reading"], at |-> [j \in 1 .. n |-> 0],
                 completed |-> 0]

NextSelect ==
    \/ /\ mode = "stream" /\ \E j \in DOMAIN sel.st : SelectTake(j)
       /\ UNCHANGED <<chanVars, iterVars, mode, query>>
    \/ /\ mode = "memory" /\ \E j \in DOMAIN sel.st : MemorySelectTake(j)
       /\ UNCHANGED <<chanVars, iterVars, mode, query>>
    \/ /\ \E j \in DOMAIN sel.st : SelectResume(j)
       /\ UNCHANGED <<chanVars, iterVars, mode, query>>
    \/ /\ MemoryWriteRun
       /\ UNCHANGED <<chanVars, iterVars, mode, query, sel>>
    \/ /\ WriteContinue
       /\ UNCHANGED <<chanVars, iterVars, mode, query, immediates, sel>>
    \/ /\ Read
       /\ UNCHANGED <<chanVars, iterVars, mode, query, immediates, sel>>

SpecSelect == InitSelect /\ [][NextSelect]_vars

\* ------------------------------------------------------------------ SpecConcat
\* The state after a.concat(b) returned: the output channel of capacity 1
\* exists and the callback is queued.  Input 1 is `this`, input 2 the argument.
InitConcat ==
    /\ ChanInit /\ IterInit /\ StreamInit(1)
    /\ query = QueryIdle /\ mode = "memory"
    /\ immediates = <<>>
    /\ \E lens \in [1 .. 2 -> 0 .. MaxIn] :
          sel = [lens |-> lens, pos |-> <<0, 0>>, st |-> <<"idle">>, at |-> <<0>>,
                 completed |-> 0]

NextConcat ==
    \/ ConcatStart /\ UNCHANGED <<chanVars, iterVars, mode, query>>
    \/ ConcatTake /\ UNCHANGED <<chanVars, iterVars, mode, query>>
    \/ SelectResume(1) /\ UNCHANGED <<chanVars, iterVars, mode, query>>
    \/ MemoryWriteRun /\ UNCHANGED <<chanVars, iterVars, mode, query, sel>>
    \/ WriteContinue /\ UNCHANGED <<chanVars, iterVars, mode, query, immediates, sel>>
    \/ Read /\ UNCHANGED <<chanVars, iterVars, mode, query, immediates, sel>>

SpecConcat == InitConcat /\ [][NextConcat]_vars

\* ------------------------------------------------------------------ SpecForward
\* The state after input.take(count) or input.skip(count) returned: the output
\* channel of capacity 1 exists and the callback waits for the first element
\* of the input, which holds up to MaxIn values.  The output is read at any
\* time.
InitForward ==
    /\ ChanInit /\ IterInit /\ StreamInit(1)
    /\ mode = "memory"
    /\ immediates = <<>>
    /\ \E len \in 0 .. MaxIn :
          sel = [lens |-> <<len>>, pos |-> <<0>>, st |-> <<"reading">>, at |-> <<0>>,
                 completed |-> 0]
    /\ \E op \in {"take", "skip"} : \E count \in 0 .. MaxIn + 1 :
          query = [QueryIdle EXCEPT !.op = op, !.arg = count]

NextForward ==
    \/ Take /\ UNCHANGED <<chanVars, iterVars, mode>>
    \/ Skip /\ UNCHANGED <<chanVars, iterVars, mode>>
    \/ ForwardResume /\ UNCHANGED <<chanVars, iterVars, mode>>
    \/ MemoryWriteRun /\ UNCHANGED <<chanVars, iterVars, mode, query, sel>>
    \/ WriteContinue /\ UNCHANGED <<chanVars, iterVars, mode, query, immediates, sel>>
    \/ Read /\ UNCHANGED <<chanVars, iterVars, mode, query, immediates, sel>>

SpecForward == InitForward /\ [][NextForward]_vars

\* ------------------------------------------------------------------ SpecQuery
\* One element operator called on an input that produces the sequence s and
\* then null.  elementAt is called with every index up to MaxIn.
Inputs == UNION {[1 .. n -> Values] : n \in 0 .. MaxIn}

InitQuery ==
    /\ ChanInit /\ IterInit /\ StreamInit(1)
    /\ mode = "memory"
    /\ immediates = <<>> /\ sel = SelIdle
    /\ \E op \in {"elementAt", "elementAtOrDefault", "first", "firstOrDefault",
                  "last", "lastOrDefault"} :
       \E index \in 0 .. MaxIn : \E s \in Inputs :
          /\ op \notin {"elementAt", "elementAtOrDefault"} => index = 0
          /\ query = [QueryIdle EXCEPT !.op = op, !.arg = index, !.s = s]

NextQuery ==
    \/ ElementAt /\ UNCHANGED <<chanVars, streamVars, iterVars, mode, immediates, sel>>
    \/ ElementAtOrDefault /\ UNCHANGED <<chanVars, streamVars, iterVars, mode, immediates, sel>>
    \/ First /\ UNCHANGED <<chanVars, streamVars, iterVars, mode, immediates, sel>>
    \/ FirstOrDefault /\ UNCHANGED <<chanVars, streamVars, iterVars, mode, immediates, sel>>
    \/ Last /\ UNCHANGED <<chanVars, streamVars, iterVars, mode, immediates, sel>>
    \/ LastOrDefault /\ UNCHANGED <<chanVars, streamVars, iterVars, mode, immediates, sel>>

SpecQuery == InitQuery /\ [][NextQuery]_vars

\* ================================================================== claims
\* ------------------------------------------------------------------ helpers
\* the slots that passed the status check, in call order
Sent == [i \in 1 .. Cardinality({j \in DOMAIN calls : calls[j].queued}) |->
            calls[CHOOSE j \in DOMAIN calls :
                     /\ calls[j].queued
                     /\ Cardinality({h \in 1 .. j : calls[h].queued}) = i].slot]

\* s cut after its first Eof
UpToEof(s) ==
    IF \E i \in DOMAIN s : s[i] = Eof
    THEN SubSeq(s, 1, Min({i \in DOMAIN s : s[i] = Eof}))
    ELSE s

\* what the i-th receive of a consumer that receives one at a time must return
Expected(i) == IF i <= Len(UpToEof(Sent)) THEN UpToEof(Sent)[i] ELSE Eof

\* a send/end call was added to the log in this step
IsSendStep == Len(calls') = Len(calls) + 1
\* a receive call was added to the log in this step
IsReceiveStep == Len(recvs') = Len(recvs) + 1

\* C1: a consumer that receives one at a time, and does not end the channel
\* itself, obtains the sent slots in send order up to the first Eof, and Eof
\* from then on: nothing lost, duplicated or reordered, and no receive throws.
C1_FifoThenEof ==
    (~overlapped /\ rend.n = 0) =>
        \A i \in DOMAIN recvs :
            /\ recvs[i].st # "threw"
            /\ recvs[i].st = "done" =>
                  /\ recvs[i].val = Expected(i)
                  /\ i > Len(UpToEof(Sent)) =>
                        (Sent # <<>> /\ UpToEof(Sent)[Len(UpToEof(Sent))] = Eof)

\* two different payloads then end(), all three received in order, then Eof again
C1_Witness ==
    /\ ~overlapped /\ rend.n = 0
    /\ Len(calls) = 3 /\ calls[1].slot = 2 /\ calls[2].slot = 1 /\ calls[3].slot = Eof
    /\ Len(recvs) = 4
    /\ \A i \in 1 .. 4 : recvs[i].st = "done"
    /\ recvs[1].val = 2 /\ recvs[2].val = 1 /\ recvs[3].val = Eof /\ recvs[4].val = Eof

\* C2: the k-th send/end call is resolved only once the k-th receive call has
\* taken a slot from the queue (and with it each of the k-1 receives before it).
C2_AckPairing ==
    \A k \in DOMAIN calls :
        calls[k].outcome = "resolved" =>
            (k \in DOMAIN recvs /\ \A j \in 1 .. k : recvs[j].took)

\* the second send is resolved, by the second receive, while a third is pending
C2_Witness ==
    /\ Len(calls) = 3 /\ Len(recvs) = 2
    /\ calls[2].outcome = "resolved" /\ calls[3].outcome = "pending"
    /\ recvs[2].st = "done" /\ recvs[2].took

\* some receive has returned Eof
EofReturned == \E i \in DOMAIN recvs : recvs[i].st = "done" /\ recvs[i].val = Eof

\* C6: once a receive has returned Eof, every receive issued afterwards returns
\* Eof within its call, taking nothing from the queue.
C6_EofSticks ==
    [][(EofReturned /\ IsReceiveStep) =>
          /\ recvs'[Len(recvs')] = [st |-> "done", val |-> Eof, took |-> FALSE]
          /\ buffer' = buffer]_vars

\* a receive took the Eof slot, the next two returned Eof and a slot sent after
\* end() is still in the queue
C6_Witness ==
    /\ Len(recvs) >= 3
    /\ recvs[1].st = "done" /\ recvs[1].val = Eof /\ recvs[1].took
    /\ recvs[2].st = "done" /\ recvs[2].val = Eof /\ ~recvs[2].took
    /\ recvs[3].st = "done" /\ recvs[3].val = Eof /\ ~recvs[3].took
    /\ buffer # <<>>

\* C7: when Receiver.end() is first called after k receives have returned a
\* slot, the first k send/end calls are resolved, and every send/end call that
\* was outstanding at that moment or is made afterwards is rejected with
\* ReceiverEndedError.
C7_ReceiverEndRejects ==
    rend.n > 0 =>
        /\ \A i \in 1 .. rend.k : i \in DOMAIN calls /\ calls[i].outcome = "resolved"
        /\ \A i \in DOMAIN calls :
              (i \in rend.pend \/ i > rend.ncalls) => calls[i].outcome = "ReceiverEndedError"

\* C8: while the status is ENDED_BY_RECEIVER the awaiters list is empty and no
\* send/end call is pending.
C8_NoAwaiterWhenCancelled ==
    status = ENDED_BY_RECEIVER =>
        /\ awaiters = <<>>
        /\ \A i \in DOMAIN calls : calls[i].outcome # "pending"

\* Receiver.end() found two sends outstanding and rejected both
C8_Witness ==
    /\ status = ENDED_BY_RECEIVER
    /\ Len(calls) >= 2
    /\ calls[1].queued /\ calls[1].outcome = "ReceiverEndedError"
    /\ calls[2].queued /\ calls[2].outcome = "ReceiverEndedError"

\* the promise of some Sender.end() call has resolved
EndResolved == \E i \in DOMAIN calls : calls[i].slot = Eof /\ calls[i].outcome = "resolved"

\* C9: once the promise of a Sender.end() call has resolved, every later
\* send/end call is rejected with SenderEndedError and enqueues nothing.
C9_SendAfterEndRejected ==
    [][(EndResolved /\ IsSendStep) =>
          /\ calls'[Len(calls')].outcome = "SenderEndedError"
          /\ ~calls'[Len(calls')].queued
          /\ buffer' = buffer]_vars

\* C10: the status starts OPEN and, once it is not OPEN, is never OPEN again.
C10_NeverReopens ==
    /\ status = OPEN
    /\ [][status # OPEN => status' # OPEN]_vars

\* a receive whose dequeue settled with a payload completed after
\* Receiver.end() had emptied the awaiters list, and the status stayed ended
C10_Witness ==
    /\ status = ENDED_BY_RECEIVER
    /\ \E i \in DOMAIN recvs : recvs[i].st = "threw" /\ recvs[i].val \in Values

\* ------------------------------------------------------------------ Stream claims
\* a read call was added to the log in this step
IsReadStep == Len(rcalls') = Len(rcalls) + 1

\* C3: while no read() has been called, every write()/end() after the first
\* `bounds` stays suspended, and the first `bounds` have completed.
C3_BoundedAdmission ==
    Len(rcalls) = 0 =>
        \A i \in DOMAIN wcalls :
            wcalls[i].st = (IF i > bounds THEN "suspended" ELSE "done")

\* capacity 2: two writes admitted, the third and fourth wait, nothing read
C3_Witness ==
    /\ bounds = 2 /\ Len(rcalls) = 0 /\ Len(wcalls) = 4
    /\ wcalls[2].st = "done" /\ wcalls[3].st = "suspended" /\ wcalls[4].st = "suspended"

\* C4: with capacity >= 1, none of the first `bounds` write()/end() calls
\* suspends, and a call suspends only if it found the buffer at capacity.
C4_SuspendOnlyAtCapacity ==
    bounds >= 1 =>
        \A i \in DOMAIN wcalls :
            /\ i <= bounds => ~wcalls[i].susp
            /\ wcalls[i].susp => wcalls[i].qlen >= bounds

\* capacity 1: a write admitted, read, a second write admitted into the
\* emptied buffer, and a third that found the buffer full and suspended
C4_Witness ==
    /\ bounds = 1 /\ Len(wcalls) >= 3
    /\ ~wcalls[1].susp
    /\ ~wcalls[2].susp /\ wcalls[2].readsAt = 1 /\ wcalls[2].qlen = 0
    /\ wcalls[3].susp /\ wcalls[3].qlen = 1

\* C5: a read() releases the oldest suspended writer and no other; so a
\* writer that suspended behind `ahead` others stays suspended for exactly the
\* next `ahead` reads and is released by the read after them (the very next
\* read when it is the oldest), and its write then completes in its own
\* continuation, not in a read.
C5_ReadReleasesOldest ==
    /\ [](\A i \in DOMAIN wcalls :
             wcalls[i].susp =>
                (wcalls[i].st = "suspended" <=> Len(rcalls) - wcalls[i].readsAt <= wcalls[i].ahead))
    /\ [][/\ IsReadStep =>
               IF writers # <<>>
               THEN writers' = Tail(writers) /\ woken' = Append(woken, Head(writers))
               ELSE UNCHANGED <<writers, woken>>
          /\ \A i \in DOMAIN wcalls :
               (wcalls[i].st = "woken" /\ wcalls'[i].st # "woken") =>
                   (wcalls'[i].st = "done" /\ ~IsReadStep)]_vars

\* capacity 1 with two writers suspended: one read released the older, whose
\* write has completed, and the younger is still suspended
C5_Witness ==
    /\ bounds = 1 /\ Len(rcalls) = 1 /\ Len(wcalls) >= 3
    /\ wcalls[2].susp /\ wcalls[2].ahead = 0 /\ wcalls[2].st = "done"
    /\ wcalls[3].susp /\ wcalls[3].ahead = 1 /\ wcalls[3].st = "suspended"

\* ------------------------------------------------------------------ status and ended calls
\* the continuation of a receive ran in this step
IsCompleteStep == \E i \in DOMAIN recvs : recvs[i].st = "claimed" /\ recvs'[i].st # "claimed"
\* Receiver.end() was called in this step
IsReceiverEndStep == rend'.n = rend.n + 1

\* C11: the status changes only from OPEN, to ENDED_BY_SENDER when a receive
\* completes with the Eof slot or to ENDED_BY_RECEIVER in Receiver.end(); an
\* ended status never changes again.
C11_EndedIsTerminal ==
    [][status' # status =>
          /\ status = OPEN
          /\ \/ /\ status' = ENDED_BY_SENDER
                /\ IsCompleteStep
                /\ recvs[Min(Claimed)].val = Eof
             \/ /\ status' = ENDED_BY_RECEIVER
                /\ IsReceiverEndStep]_vars

\* C12: a send/end call made while the status is not OPEN is rejected within
\* the call with the error of that status, and leaves the queue, the awaiters
\* and the receives untouched; a receive call made while the status is not OPEN
\* returns Eof within the call, leaves the queue untouched and suspends nothing.
C12_EndedCallsAreImmediate ==
    [][/\ (status # OPEN /\ IsSendStep) =>
             /\ calls'[Len(calls')].outcome =
                   (IF status = ENDED_BY_RECEIVER THEN "ReceiverEndedError" ELSE "SenderEndedError")
             /\ ~calls'[Len(calls')].queued
             /\ buffer' = buffer /\ awaiters' = awaiters /\ recvs' = recvs
       /\ (status # OPEN /\ IsReceiveStep) =>
             /\ recvs'[Len(recvs')] = [st |-> "done", val |-> Eof, took |-> FALSE]
             /\ buffer' = buffer
             /\ \A i \in DOMAIN recvs : recvs'[i] = recvs[i]]_vars

\* a send rejected in ENDED_BY_SENDER, one rejected in ENDED_BY_RECEIVER, and a
\* receive that returned Eof without touching the queue
C12_Witness ==
    /\ \E i \in DOMAIN calls : ~calls[i].queued /\ calls[i].outcome = "SenderEndedError"
    /\ \E i \in DOMAIN calls : ~calls[i].queued /\ calls[i].outcome = "ReceiverEndedError"
    /\ \E i \in DOMAIN recvs : recvs[i].st = "done" /\ ~recvs[i].took

\* C13: whenever the continuation of a receive runs, the awaiters list is not
\* empty and the continuation resolves its oldest entry and no other.
C13_CompletionResolvesOldest ==
    [][IsCompleteStep =>
          /\ awaiters # <<>>
          /\ awaiters' = Tail(awaiters)
          /\ calls' = [calls EXCEPT ![Head(awaiters)].outcome = "resolved"]]_vars

\* C14: when the promise of a Sender.end() call has resolved, every send call
\* made before it has had its value returned by a receive.
C14_EndResolvesAfterDelivery ==
    \A e \in DOMAIN calls :
        (calls[e].slot = Eof /\ calls[e].outcome = "resolved") =>
            \A j \in 1 .. e - 1 :
                calls[j].slot \in Values =>
                    /\ j \in DOMAIN recvs
                    /\ recvs[j].st = "done"
                    /\ recvs[j].val = calls[j].slot

\* two sends then end(), none awaited: end() resolved after both were received
C14_Witness ==
    /\ Len(calls) = 3
    /\ calls[1].slot \in Values /\ calls[2].slot \in Values
    /\ calls[3].slot = Eof /\ calls[3].outcome = "resolved"
    /\ Len(recvs) >= 3 /\ recvs[1].st = "done" /\ recvs[2].st = "done"

\* C17: a Receiver.end() call made while the status is ENDED_BY_RECEIVER (the
\* second of two calls in a row) changes nothing: status, awaiters, outcomes,
\* queue and receives are as the first call left them; and every receive issued
\* after a Receiver.end() returns Eof within its call.
C17_ReceiverEndIdempotent ==
    [][/\ (status = ENDED_BY_RECEIVER /\ IsReceiverEndStep) =>
             /\ status' = ENDED_BY_RECEIVER
             /\ awaiters' = awaiters /\ awaiters = <<>>
             /\ calls' = calls /\ buffer' = buffer /\ recvs' = recvs
       /\ (rend.n > 0 /\ IsReceiveStep) =>
             recvs'[Len(recvs')] = [st |-> "done", val |-> Eof, took |-> FALSE]]_vars

\* Receiver.end() twice with a send outstanding at the first, then a receive
C17_Witness ==
    /\ rend.n = 2 /\ status = ENDED_BY_RECEIVER /\ awaiters = <<>>
    /\ \E i \in DOMAIN calls : calls[i].queued /\ calls[i].outcome = "ReceiverEndedError"
    /\ Len(recvs) > 0
    /\ recvs[Len(recvs)] = [st |-> "done", val |-> Eof, took |-> FALSE]

\* the first send/end call that enqueued Eof, 0 when there is none
FirstEnd ==
    IF \E j \in DOMAIN calls : calls[j].queued /\ calls[j].slot = Eof
    THEN Min({j \in DOMAIN calls : calls[j].queued /\ calls[j].slot = Eof})
    ELSE 0

\* C18: a receive call made while the status is ENDED_BY_SENDER rejects every
\* awaiter in the list with SenderEndedError, empties the list and returns Eof;
\* so, for a consumer that receives one at a time and does not end the channel,
\* once the receive after the one that took Eof has been issued, every
\* send/end call made after the first end() is rejected with SenderEndedError.
C18_DrainAfterSenderEnd ==
    /\ [][(status = ENDED_BY_SENDER /\ IsReceiveStep) =>
             /\ awaiters' = <<>>
             /\ calls' = [i \in DOMAIN calls |->
                             IF i \in Range(awaiters)
                             THEN [calls[i] EXCEPT !.outcome = "SenderEndedError"]
                             ELSE calls[i]]
             /\ recvs'[Len(recvs')] = [st |-> "done", val |-> Eof, took |-> FALSE]]_vars
    /\ []((~overlapped /\ rend.n = 0 /\ FirstEnd > 0 /\ Len(recvs) > FirstEnd) =>
             \A j \in DOMAIN calls : j > FirstEnd => calls[j].outcome = "SenderEndedError")

\* send, end, send, none awaited, then three receives one at a time: the send
\* that passed the status check after end() was rejected by the third receive
C18_Witness ==
    /\ ~overlapped /\ rend.n = 0
    /\ Len(calls) = 3 /\ calls[2].slot = Eof /\ calls[2].outcome = "resolved"
    /\ calls[3].queued /\ calls[3].outcome = "SenderEndedError"
    /\ Len(recvs) = 3 /\ recvs[3] = [st |-> "done", val |-> Eof, took |-> FALSE]

\* ------------------------------------------------------------------ iteration claims
\* the values passed to Stream.write/end, in call order
Written == [i \in DOMAIN wcalls |-> wcalls[i].val]

\* s up to, and without, its first end marker m
BeforeMarker(s, m) ==
    IF \E i \in DOMAIN s : s[i] = m
    THEN SubSeq(s, 1, Min({i \in DOMAIN s : s[i] = m}) - 1)
    ELSE s

IsPrefix(a, b) == Len(a) <= Len(b) /\ SubSeq(b, 1, Len(a)) = a

\* what a full iteration must yield: the values sent before the end marker
SentBeforeEnd ==
    IF mode = "channel" THEN BeforeMarker(Sent, Eof) ELSE BeforeMarker(Written, Undefined)

\* C15: a `for await` loop that is the only consumer (nobody calls
\* Receiver.end()) yields the values sent before the end marker in send order
\* and nothing else, never throws, and when it stops it has yielded all of them.
C15_IterationYieldsSent ==
    rend.n = 0 =>
        /\ iter.st # "threw"
        /\ IsPrefix(yielded, SentBeforeEnd)
        /\ iter.st = "stopped" => yielded = SentBeforeEnd

\* the consumer left the loop in this step
IsAbandonStep == iter.st = "yielded" /\ iter'.st = "abandoned"

\* C16: leaving a `for await` loop over a Receiver before Eof changes neither
\* the status, the queue nor the awaiters; afterwards a pending send/end call
\* is settled only by a step of a receive or by Receiver.end().
C16_AbandonLeavesChannel ==
    [][/\ (mode = "channel" /\ IsAbandonStep) =>
             /\ status' = status /\ buffer' = buffer /\ awaiters' = awaiters
             /\ calls' = calls /\ recvs' = recvs
       /\ (mode = "channel" /\ iter.st = "abandoned") =>
             \A i \in DOMAIN calls :
                (calls[i].outcome = "pending" /\ calls'[i].outcome # "pending") =>
                    (recvs' # recvs \/ IsReceiverEndStep)]_vars

\* the loop was left after its first value with the channel open and a second
\* send outstanding, which a later direct receive then resolved
C16_Witness ==
    /\ mode = "channel" /\ iter.st = "abandoned" /\ status = OPEN
    /\ Len(yielded) = 1
    /\ Len(calls) >= 2 /\ calls[2].outcome = "resolved"
    /\ Len(recvs) = 2 /\ recvs[2].st = "done" /\ recvs[2].val \in Values

\* C19: once a `for await` loop over a Receiver has stopped on Eof, no
\* send/end call that passed the status check is still pending.
C19_NoPendingAfterDrain ==
    (mode = "channel" /\ iter.st = "stopped") =>
        \A i \in DOMAIN calls : calls[i].outcome # "pending"

\* ------------------------------------------------------------------ transfer queue claims
\* C20: in the Stream and in the Memory store, whenever a reader is suspended
\* the buffer is empty; a step that adds a value to the buffer starts with no
\* reader suspended, and a step that suspends a reader starts with the buffer
\* empty.
C20_ReadersOnlyOnEmptyBuffer ==
    /\ [](sinks # <<>> => queue = <<>>)
    /\ [][/\ Len(queue') > Len(queue) => sinks = <<>>
          /\ Len(sinks') > Len(sinks) => queue = <<>>]_vars

\* Memory store: two reads suspended, a write handed its value to the older
\* one without buffering it, and the younger is still suspended
C20_Witness ==
    /\ mode = "memory" /\ Len(rcalls) = 2 /\ Len(wcalls) = 1
    /\ rcalls[1].st = "done" /\ rcalls[1].val \in Values
    /\ sinks = <<2>> /\ queue = <<>>

\* ------------------------------------------------------------------ bounded Stream claims
\* C21: with capacity >= 1 the buffer never holds more values than the capacity.
C21_BufferWithinBounds ==
    bounds >= 1 => Len(queue) <= bounds

\* C22: the i-th read call returns what the i-th write/end call passed: values
\* are read in the order their writes were called.
C22_ReadsInWriteOrder ==
    \A i \in DOMAIN rcalls :
        rcalls[i].st = "done" => (i \in DOMAIN wcalls /\ rcalls[i].val = wcalls[i].val)

\* a write/end call suspended in this step
IsWriteSuspendStep == Len(writers') > Len(writers)
\* a read call suspended in this step
IsReadSuspendStep == Len(sinks') > Len(sinks)

\* C23: for every capacity >= 0, a write/end call suspends only when no reader
\* is suspended and the buffer is at capacity, and a read call suspends only
\* when the buffer is empty.
C23_SuspendConditions ==
    [][/\ IsWriteSuspendStep => (sinks = <<>> /\ Len(queue) >= bounds)
       /\ IsReadSuspendStep => queue = <<>>]_vars

\* ------------------------------------------------------------------ awaited producer
\* the write calls whose promise has resolved
WritesDone == {i \in DOMAIN wcalls : wcalls[i].st = "done"}

\* the producer cannot go on: its last write is suspended, or it has written all
ProducerAtRest ==
    /\ wcalls # <<>>
    /\ \/ wcalls[Len(wcalls)].st = "suspended"
       \/ Len(wcalls) = MaxWrites /\ wcalls[Len(wcalls)].st = "done"

\* C24: capacity 1, one producer awaiting each write of 1..MaxWrites.  The k-th
\* read returns k; and whenever the producer is at rest, every read made has
\* completed and no woken writer is left to resume, exactly
\* min(MaxWrites, k + 1) writes have completed, k being the reads made
\* (one write before any read).
C24_AwaitedProducerSteps ==
    bounds = 1 =>
        /\ \A i \in DOMAIN rcalls : rcalls[i].st = "done" => rcalls[i].val = i
        /\ (ProducerAtRest /\ woken = <<>> /\ sinks = <<>>) =>
              Cardinality(WritesDone) =
                 (IF Len(rcalls) + 1 < MaxWrites THEN Len(rcalls) + 1 ELSE MaxWrites)

\* two reads returned 1 and 2, the third write has completed and the fourth waits
C24_Witness ==
    /\ bounds = 1 /\ woken = <<>> /\ sinks = <<>>
    /\ Len(rcalls) = 2 /\ rcalls[1].val = 1 /\ rcalls[2].val = 2
    /\ Len(wcalls) = 4 /\ wcalls[3].st = "done" /\ wcalls[4].st = "suspended"

\* ------------------------------------------------------------------ receive, Eof and awaiters
\* C26: while no send/end call has been made, every receive issued on the OPEN
\* channel is still suspended (a receive issued after Receiver.end() returns
\* Eof as C12 says); and a receive that has taken a slot holds a slot some
\* send/end call enqueued, no more receives having taken one than calls enqueued.
C26_ReceiveWaitsForSend ==
    /\ calls = <<>> =>
          \A i \in DOMAIN recvs :
             \/ recvs[i].st = "waiting"
             \/ rend.n > 0 /\ recvs[i] = [st |-> "done", val |-> Eof, took |-> FALSE]
    /\ \A i \in DOMAIN recvs :
          recvs[i].took => \E j \in DOMAIN calls : calls[j].queued /\ calls[j].slot = recvs[i].val
    /\ Cardinality({i \in DOMAIN recvs : recvs[i].took}) <= Len(Sent)

\* three receives issued with nothing sent: all three still suspended
C26_Witness ==
    /\ calls = <<>> /\ status = OPEN /\ Len(recvs) = 3
    /\ \A i \in DOMAIN recvs : recvs[i].st = "waiting"

\* some Sender.end() call has enqueued the Eof slot
EndCalled == \E j \in DOMAIN calls : calls[j].queued /\ calls[j].slot = Eof

\* C27: the status becomes ENDED_BY_SENDER only in the continuation of a
\* receive whose slot is the Eof that a Sender.end() enqueued; a send of a
\* payload, the falsy `void 0` included, leaves the status as it was; and while
\* neither Sender.end() nor Receiver.end() has been called the status is OPEN,
\* no receive has returned Eof and the iteration has not stopped.
C27_OnlyEndEndsTheChannel ==
    /\ [][/\ (status' = ENDED_BY_SENDER /\ status # ENDED_BY_SENDER) =>
                (IsCompleteStep /\ recvs[Min(Claimed)].val = Eof /\ EndCalled)
          /\ (IsSendStep /\ calls'[Len(calls')].slot \in Values) => status' = status]_vars
    /\ []((mode = "channel" /\ ~EndCalled /\ rend.n = 0) =>
             /\ status = OPEN
             /\ \A i \in DOMAIN recvs : recvs[i].val # Eof
             /\ iter.st # "stopped")

\* `void 0` was sent twice and yielded twice by the iteration, which goes on
C27_Witness ==
    /\ mode = "channel" /\ ~EndCalled /\ rend.n = 0 /\ status = OPEN
    /\ yielded = <<VoidPayload, VoidPayload>>
    /\ iter.st = "awaiting"

NoDuplicates(s) == \A i, j \in DOMAIN s : s[i] = s[j] => i = j

\* C28: the awaiters list holds, once each, exactly the send/end calls that
\* passed the status check and are not yet settled: a call that passes the
\* check adds one awaiter, a settled call is out of the list and its outcome
\* never changes again; an awaiter is resolved only by a receive's
\* continuation (one per continuation), rejected with ReceiverEndedError only
\* by Receiver.end() and with SenderEndedError only by a receive call.
C28_AwaiterSettledOnce ==
    /\ [](/\ NoDuplicates(awaiters)
          /\ \A i \in DOMAIN calls :
                i \in Range(awaiters) <=> (calls[i].queued /\ calls[i].outcome = "pending"))
    /\ [][/\ \A i \in DOMAIN calls :
                /\ calls[i].outcome # "pending" => calls'[i].outcome = calls[i].outcome
                /\ (calls[i].outcome = "pending" /\ calls'[i].outcome = "resolved") =>
                      (IsCompleteStep /\ i = Head(awaiters))
                /\ (calls[i].outcome = "pending" /\ calls'[i].outcome = "ReceiverEndedError") =>
                      IsReceiverEndStep
                /\ (calls[i].outcome = "pending" /\ calls'[i].outcome = "SenderEndedError") =>
                      (IsReceiveStep /\ status = ENDED_BY_SENDER)
          /\ (IsSendStep /\ calls'[Len(calls')].queued) =>
                awaiters' = Append(awaiters, Len(calls'))]_vars

\* end() resolved by the receive that took Eof, a later send rejected by the
\* next receive, and the list empty
C28_Witness ==
    /\ Len(calls) >= 2 /\ awaiters = <<>>
    /\ calls[1].queued /\ calls[1].outcome = "resolved"
    /\ calls[2].queued /\ calls[2].outcome = "SenderEndedError"

\* ------------------------------------------------------------------ select and concat claims
\* every value passed to the output's write so far, in call order
AllWritten == Written \o immediates

\* the values the output's completed reads returned, in call order
ReadVals ==
    LET done == SelectSeq(rcalls, LAMBDA r : r.st = "done")
    IN [i \in DOMAIN done |-> done[i].val]

\* the elements of s that input j produced
FromInput(s, j) == SelectSeq(s, LAMBDA x : x # Undefined /\ SrcOf(x) = j)

\* every forwarder has found its reader exhausted
AllExhausted == \A j \in DOMAIN sel.st : sel.st[j] \in {"ending", "done"}

\* the end marker has been written to the output
OutputEnded == \E i \in DOMAIN AllWritten : AllWritten[i] = Undefined

\* C25: the output of select is ended exactly when every input reader has
\* been exhausted: the end marker is written as soon as the last one is, never
\* before, and no read of the output returns it before.
C25_SelectEndsAfterAll ==
    /\ OutputEnded <=> AllExhausted
    /\ \A i \in DOMAIN rcalls :
          (rcalls[i].st = "done" /\ rcalls[i].val = Undefined) => AllExhausted

\* C29: for each input of select, the values written to the output that came
\* from it are exactly the values taken from it so far, once each and in its
\* order; the output's reads return them in that order too; and nothing else
\* than input values and the end marker is written.
C29_SelectForwardsEachOnce ==
    /\ \A j \in DOMAIN sel.lens :
          /\ FromInput(AllWritten, j) = SubSeq(InputSeq(j), 1, sel.pos[j])
          /\ IsPrefix(FromInput(ReadVals, j), InputSeq(j))
    /\ \A i \in DOMAIN AllWritten :
          AllWritten[i] # Undefined =>
              /\ SrcOf(AllWritten[i]) \in DOMAIN sel.lens
              /\ AllWritten[i] \in Range(InputSeq(SrcOf(AllWritten[i])))

\* two inputs: both values of the second and the first value of the first have
\* been read from the output, the second input's in their order
C29_Witness ==
    /\ Len(sel.lens) = 2 /\ sel.lens[2] = 2
    /\ Len(ReadVals) = 3
    /\ FromInput(ReadVals, 2) = <<InVal(2, 1), InVal(2, 2)>>
    /\ FromInput(ReadVals, 1) = <<InVal(1, 1)>>
    /\ ReadVals[2] = InVal(1, 1)

\* what collecting a.concat(b) must read: a, then b, then the end marker
ConcatExpected == InputSeq(1) \o InputSeq(2) \o <<Null>>

\* C30: a.concat(b) writes, and its reader reads, the values of a in order,
\* then the values of b in order, then null; when the callback has finished
\* all of them, null included, have been written.
C30_ConcatInOrder ==
    /\ IsPrefix(AllWritten, ConcatExpected)
    /\ IsPrefix(ReadVals, ConcatExpected)
    /\ sel.st[1] = "done" => AllWritten = ConcatExpected

\* one value in each input: the reader has read a's, b's and then null
C30_Witness ==
    /\ sel.lens = <<1, 1>>
    /\ ReadVals = <<InVal(1, 1), InVal(2, 1), Null>>

\* ------------------------------------------------------------------ channel claims, continued
\* C33: a receive that is suspended in dequeue() when Receiver.end() is called
\* stays suspended in every later step: each send/end call made after the
\* first Receiver.end() is rejected before it enqueues, so no slot reaches it.
C33_SuspendedReceiveNeverCompletes ==
    /\ [][rend.n > 0 => \A i \in Waiting : recvs'[i] = recvs[i]]_vars
    /\ [](rend.n > 0 =>
             \A j \in DOMAIN calls : j > rend.ncalls => ~calls[j].queued)

\* a receive suspended before Receiver.end() is still suspended after a send
\* and an end() were made, and rejected, afterwards
C33_Witness ==
    /\ rend.n > 0 /\ rend.ncalls = 0
    /\ recvs # <<>> /\ recvs[1].st = "waiting"
    /\ Len(calls) = 2 /\ calls[1].slot # Eof /\ calls[2].slot = Eof
    /\ \A j \in DOMAIN calls : calls[j].outcome = "ReceiverEndedError"

\* the slots of the receives whose dequeue has settled and whose continuation
\* has not run, from receive i on, oldest first
RECURSIVE ClaimedSlotsFrom(_)
ClaimedSlotsFrom(i) ==
    IF i > Len(recvs) THEN <<>>
    ELSE (IF recvs[i].st = "claimed" THEN <<recvs[i].val>> ELSE <<>>) \o ClaimedSlotsFrom(i + 1)

\* the slots enqueued and not yet acknowledged, oldest first
Unacknowledged == ClaimedSlotsFrom(1) \o buffer

\* C34: while the status is OPEN, the awaiters are, in order, the calls whose
\* slots are dequeued and not yet completed followed by those still in the
\* queue: as many awaiters as unacknowledged slots, each with its own slot.
C34_AwaitersMatchSlots ==
    status = OPEN =>
        /\ Len(awaiters) = Len(Unacknowledged)
        /\ \A i \in DOMAIN awaiters :
              /\ calls[awaiters[i]].queued
              /\ calls[awaiters[i]].outcome = "pending"
              /\ calls[awaiters[i]].slot = Unacknowledged[i]

\* three calls made, the first acknowledged: one slot dequeued and not yet
\* completed, one still in the queue, two awaiters
C34_Witness ==
    /\ status = OPEN
    /\ Len(calls) = 3 /\ calls[1].outcome = "resolved"
    /\ awaiters = <<2, 3>> /\ calls[2].slot # calls[3].slot
    /\ Len(ClaimedSlotsFrom(1)) = 1 /\ Len(buffer) = 1

\* C35: for a consumer with at most one receive in flight, a receive that
\* returns a payload returns the slot at its own position in send order, and
\* that position is before the first Eof: a payload sent after end() is never
\* returned; and after a receive returned Eof every receive returns Eof.
C35_NothingAfterEof ==
    ~overlapped =>
        /\ \A i \in DOMAIN recvs :
              (recvs[i].st = "done" /\ recvs[i].val # Eof) =>
                  /\ i <= Len(BeforeMarker(Sent, Eof))
                  /\ recvs[i].val = Sent[i]
        /\ \A i, j \in DOMAIN recvs :
              (i < j /\ recvs[i].st = "done" /\ recvs[i].val = Eof /\ recvs[j].st = "done")
                  => recvs[j].val = Eof

\* send, end, send, none awaited, then three receives one at a time: the
\* payload, Eof and Eof again, the second payload left behind in the queue
C35_Witness ==
    /\ ~overlapped
    /\ Len(calls) = 3 /\ calls[1].slot # Eof /\ calls[2].slot = Eof
    /\ calls[3].slot # Eof /\ calls[3].queued
    /\ Len(recvs) = 3 /\ \A i \in DOMAIN recvs : recvs[i].st = "done"
    /\ recvs[1].val = calls[1].slot /\ recvs[2].val = Eof /\ recvs[3].val = Eof
    /\ buffer = <<calls[3].slot>>

\* ------------------------------------------------------------------ Stream claims, continued
\* some read has returned the end marker
MarkerRead == \E i \in DOMAIN rcalls : rcalls[i] = [st |-> "done", val |-> Undefined]

\* a write/end call was added to the log in this step
IsWriteStep == Len(wcalls') = Len(wcalls) + 1

\* nothing written is left to read: empty buffer, no writer suspended or woken
Drained == queue = <<>> /\ writers = <<>> /\ woken = <<>>

\* the end markers the reads have returned, and the end() calls made
MarkersRead == {i \in DOMAIN rcalls : rcalls[i] = [st |-> "done", val |-> Undefined]}
EndCalls    == {i \in DOMAIN wcalls : wcalls[i].val = Undefined}

\* C36 as stated: a read issued after the end marker was consumed, with no
\* write issued since (here: every write was issued before the first read),
\* suspends.
C36_ReadAfterMarkerSuspends ==
    [][(MarkerRead /\ IsReadStep /\ \A w \in DOMAIN wcalls : wcalls[w].readsAt = 0)
          => rcalls'[Len(rcalls')].st = "suspended"]_vars

\* C36, amended: the stream has no terminal state.  After a read has returned
\* the end marker, a write is handled by the capacity rule alone (suspended at
\* capacity, else handed to the oldest suspended reader or buffered), a read
\* returns the oldest buffered value, and a read issued when nothing written is
\* left to read suspends; the reads return the marker at most once per end().
C36_NoTerminalState ==
    /\ [][(MarkerRead /\ IsWriteStep) =>
             LET w == Len(wcalls') IN
             IF Len(queue) >= bounds
             THEN wcalls'[w].st = "suspended" /\ writers' = Append(writers, w)
             ELSE /\ wcalls'[w].st = "done"
                  /\ IF sinks # <<>>
                     THEN rcalls'[Head(sinks)] = [st |-> "done", val |-> wcalls'[w].val]
                     ELSE queue' = Append(queue, wcalls'[w].val)]_vars
    /\ [][(MarkerRead /\ IsReadStep) =>
             LET r == Len(rcalls') IN
             IF queue # <<>>
             THEN rcalls'[r] = [st |-> "done", val |-> Head(queue)]
             ELSE rcalls'[r].st = "suspended" /\ sinks' = Append(sinks, r)]_vars
    /\ [](Cardinality(MarkersRead) <= Cardinality(EndCalls))

\* end(), read: the marker; then write(v), read: v; then a third read, which
\* is suspended
C36_Witness ==
    /\ Len(wcalls) = 2 /\ wcalls[1].val = Undefined
    /\ wcalls[2].val # Undefined /\ wcalls[2].readsAt = 1 /\ wcalls[2].st = "done"
    /\ Len(rcalls) = 3
    /\ rcalls[1] = [st |-> "done", val |-> Undefined]
    /\ rcalls[2] = [st |-> "done", val |-> wcalls[2].val]
    /\ rcalls[3].st = "suspended" /\ Drained

\* how many elements of s are x
Count(s, x) == Cardinality({i \in DOMAIN s : s[i] = x})

\* the values held by write/end calls suspended in writePause or resolved and
\* not yet resumed, in call order
HeldByWriters ==
    LET held == SelectSeq(wcalls, LAMBDA w : w.st \in {"suspended", "woken"})
    IN [i \in DOMAIN held |-> held[i].val]

\* C37: every value passed to write()/end() is in exactly one place: returned
\* by (or handed to) a read, in the buffer, or held by a writer that is
\* suspended or woken and not yet resumed.  Counted per value, so that nothing
\* is dropped and nothing is delivered twice; a suspended read holds no value.
C37_ValuesConserved ==
    /\ LET written == Written
           read    == ReadVals
           held    == HeldByWriters
       IN \A x \in Values \cup {Undefined} :
             Count(written, x) = Count(read, x) + Count(queue, x) + Count(held, x)
    /\ Len(HeldByWriters) = Len(writers) + Len(woken)
    /\ \A i \in DOMAIN rcalls : rcalls[i].st = "suspended" <=> i \in Range(sinks)

\* four writes with capacity 1: one value read, one buffered, one held by a
\* woken writer and one by a suspended writer
C37_Witness ==
    /\ Len(wcalls) = 4 /\ Len(ReadVals) = 1 /\ Len(queue) = 1
    /\ Len(woken) = 1 /\ Len(writers) = 1

\* ------------------------------------------------------------------ Memory claims
\* C38: in the Memory store with capacity >= 1, where the admission test of a
\* write runs in a macrotask of its own, after every woken writer has resumed,
\* the i-th read returns the value of the i-th send, awaited or not, and the
\* buffer never holds more values than the capacity.
C38_MemoryKeepsOrder ==
    (mode = "memory" /\ bounds >= 1) =>
        /\ Len(queue) <= bounds
        /\ \A i \in DOMAIN rcalls :
              rcalls[i].st = "done" =>
                  (i \in DOMAIN AllWritten /\ rcalls[i].val = AllWritten[i])

\* capacity 1 and four sends, none awaited, of which some had to pause: three
\* reads returned the first three values, the fourth is in the buffer
C38_Witness ==
    /\ mode = "memory" /\ bounds = 1
    /\ Len(wcalls) = 4 /\ wcalls[1].val # wcalls[2].val
    /\ \A i \in DOMAIN wcalls : wcalls[i].st = "done"
    /\ wcalls[2].susp /\ wcalls[3].susp /\ wcalls[3].ahead = 1
    /\ Len(rcalls) = 3
    /\ \A i \in DOMAIN rcalls : rcalls[i] = [st |-> "done", val |-> wcalls[i].val]
    /\ queue = <<wcalls[4].val>>

\* ------------------------------------------------------------------ query operator claims
\* what collecting input.take(count) or input.skip(count) must read before null
ForwardExpected ==
    IF query.op = "take"
    THEN SubSeq(InputSeq(1), 1, IF query.arg < sel.lens[1] THEN query.arg ELSE sel.lens[1])
    ELSE SubSeq(InputSeq(1), query.arg + 1, sel.lens[1])

\* C31: take(n) writes, and its reader reads, the first min(n, |s|) values of
\* the input s in order and then null; skip(n) the values of s after the first
\* n, in order, and then null; when the callback has finished all of them,
\* null included, have been written.
C31_TakeSkipInOrder ==
    /\ IsPrefix(AllWritten, ForwardExpected \o <<Null>>)
    /\ IsPrefix(ReadVals, ForwardExpected \o <<Null>>)
    /\ sel.st[1] = "done" => AllWritten = ForwardExpected \o <<Null>>

\* take(2) of three values: the reader has read the first two and then null,
\* and the callback took the third value from the input to find the end
C31_Witness ==
    /\ query.op = "take" /\ query.arg = 2 /\ sel.lens = <<3>>
    /\ ReadVals = <<InVal(1, 1), InVal(1, 2), Null>>
    /\ sel.pos = <<3>> /\ sel.st = <<"done">>

\* the input has the element the operator asks for, and that element
HasElement ==
    IF query.op \in {"elementAt", "elementAtOrDefault"}
    THEN query.arg < Len(query.s)
    ELSE Len(query.s) >= 1
TheElement ==
    CASE query.op \in {"elementAt", "elementAtOrDefault"} -> query.s[query.arg + 1]
      [] query.op \in {"first", "firstOrDefault"}         -> query.s[1]
      [] OTHER                                            -> query.s[Len(query.s)]

\* C32: once the operator's promise has settled: on an input that has the
\* element it is resolved with the element, by both forms; on an input that
\* has not, first, last and elementAt are rejected and the OrDefault forms are
\* resolved with undefined.
C32_ElementOrDefault ==
    query.res # Pending =>
        query.res = IF HasElement THEN Resolved(TheElement)
                    ELSE IF query.op \in {"elementAtOrDefault", "firstOrDefault", "lastOrDefault"}
                    THEN Resolved(VoidPayload)
                    ELSE Rejected

====
